---- MODULE Spec2Model ----
(***************************************************************************)
(* MinerService (neurons/validators/src/services/miner_service.py).        *)
(*                                                                         *)
(* Each call of one of the five coroutines request_job_to_miner,           *)
(* create_container_to_miner, start_container_to_miner,                    *)
(* stop_container_to_miner and delete_container_to_miner is a "run".  A    *)
(* run resolves the validator hotkey, enters `async with miner_client`,    *)
(* generates an ssh key pair, sends SSHPubKeySubmitRequest, waits at most  *)
(* JOB_LENGTH for miner_accepted_ssh_key_or_failed_future, branches on the *)
(* type of the message, runs the task / docker operation, sends            *)
(* SSHPubKeyRemoveRequest and leaves the `async with` block.               *)
(*                                                                         *)
(* MinerClient, SSHService, TaskService, DockerService and settings are    *)
(* imported by the file and are not part of it: what they may do (succeed, *)
(* raise, resolve the future) is a nondeterministic choice here.           *)
(***************************************************************************)
EXTENDS Integers, Sequences, FiniteSets, TLC

\* ---------------------------------------------------------------- bounds
NumRuns == 1        \* calls in flight on the one event loop
TickLen == 150      \* granularity of the clock of asyncio.wait_for

\* ------------------------------------------------------------- constants
JOB_LENGTH == 300

Runs == 1..NumRuns

\* The five coroutines of MinerService.
Kinds == {"request_job", "create_container", "start_container",
          "stop_container", "delete_container"}

ContainerKinds == Kinds \ {"request_job"}

\* Types of the messages a miner can put on the websocket.  "Other" is any
\* message that is none of the three classes the service imports.
AcceptSSHKeyRequest == "AcceptSSHKeyRequest"
FailedRequest == "FailedRequest"
DeclineJobRequest == "DeclineJobRequest"
Classified == {AcceptSSHKeyRequest, FailedRequest, DeclineJobRequest}
MinerMessages == Classified \cup {"Other"}

\* Value of `msg` after `except TimeoutError: msg = None`.
None == "None"

VARIABLES
    wallet,     \* settings.get_bittensor_wallet().get_hotkey() can be resolved
    kind,       \* kind[r]: which coroutine run r is a call of
    pc,         \* pc[r]: position of run r in the coroutine
    fut,        \* fut[r]: job_state.miner_accepted_ssh_key_or_failed_future
    waited,     \* waited[r]: time the pending asyncio.wait_for has been waiting
    msg,        \* msg[r]: the local variable msg
    keys,       \* keys[r]: the (private_key, public_key) pair of the run, 0 before
    issued,     \* number of key pairs ssh_service.generate_ssh_key has returned
    exc,        \* exc[r]: exception travelling out of the coroutine, or "none"
    result,     \* result[r]: "running", "returned" or "raised"
    unrec,      \* unrec[r]: the miner sent a message the client does not classify
    worker,     \* worker[r]: where the operation of run r is running, or "none"
    late,       \* late[r]: message that came after wait_for gave up, or "none"
    events      \* events[r]: what run r did, in order

vars == <<wallet, kind, pc, fut, waited, msg, keys, issued, exc, result, unrec, worker,
         late, events>>

\* ---------------------------------------------------------------- helpers
Ev(t, k, a) == [type |-> t, key |-> k, arg |-> a]

Count(r, t) == Cardinality({i \in DOMAIN events[r] : events[r][i].type = t})

Has(r, t) == \E i \in DOMAIN events[r] : events[r][i].type = t

\* Position of the first event of type t in the trace of r (0 when absent).
Pos(r, t) ==
    IF Has(r, t)
    THEN CHOOSE i \in DOMAIN events[r] :
            /\ events[r][i].type = t
            /\ \A j \in 1..(i - 1) : events[r][j].type # t
    ELSE 0

Min(a, b) == IF a < b THEN a ELSE b

\* The wait ended by the deadline, not by a message.
TimedOut(r) == \E i \in DOMAIN events[r] :
    events[r][i].type = "wait_for" /\ events[r][i].arg = "TimeoutError"

\* ------------------------------------------- what differs between the five
\* The websocket route of miner_url: /jobs/ for request_job_to_miner,
\* /resources/ for the four container coroutines.
Route(k) == IF k = "request_job" THEN "jobs" ELSE "resources"

\* Only request_job_to_miner has an `elif isinstance(msg, DeclineJobRequest)`
\* branch; in the container coroutines a DeclineJobRequest reaches `else`.
HandlesDecline(k) == k = "request_job"

\* CatchesExecError with a try/except around task_service.create_task too.
CatchesExecError_AllKinds(k) == TRUE

\* CatchesExecError with the try/except around the docker call left out.
CatchesExecError_NoTry(k) == FALSE

\* The container coroutines wrap the docker call in try/except Exception;
\* request_job_to_miner awaits task_service.create_task without a try.
CatchesExecError(k) == k \in ContainerKinds

\* Where the operation runs: asyncio.to_thread hands the docker call to a
\* worker thread; `await self.task_service.create_task(...)` runs the
\* coroutine inside the calling task, on the event loop.
ExecWorker(k) == IF k \in ContainerKinds THEN "thread" ELSE "loop"

\* The operation the run invokes once the miner accepted the key.
Executor(k) ==
    CASE k = "request_job"      -> "task_service.create_task"
      [] k = "create_container" -> "docker_service.create_container"
      [] k = "start_container"  -> "docker_service.start_container"
      [] k = "stop_container"   -> "docker_service.stop_container"
      [] k = "delete_container" -> "docker_service.delete_container"

\* Text of logger.error in the except branch of the container coroutines.
ErrorLogText(k) ==
    IF k = "create_container" THEN "create container error"
    ELSE "start container error"

\* -------------------------------------------------------------------- Init
Init ==
    /\ wallet \in BOOLEAN
    /\ kind \in [Runs -> Kinds]
    /\ pc = [r \in Runs |-> "start"]
    /\ fut = [r \in Runs |-> "pending"]
    /\ waited = [r \in Runs |-> 0]
    /\ msg = [r \in Runs |-> "unset"]
    /\ keys = [r \in Runs |-> 0]
    /\ issued = 0
    /\ exc = [r \in Runs |-> "none"]
    /\ result = [r \in Runs |-> "running"]
    /\ unrec = [r \in Runs |-> FALSE]
    /\ worker = [r \in Runs |-> "none"]
    /\ late = [r \in Runs |-> "none"]
    /\ events = [r \in Runs |-> <<>>]

\* The exception leaves the coroutine before `async with` was entered:
\* nothing to release.
RaiseOutside(r, e) ==
    /\ pc' = [pc EXCEPT ![r] = "done"]
    /\ exc' = [exc EXCEPT ![r] = e]
    /\ result' = [result EXCEPT ![r] = "raised"]

\* RaiseInside with the exception leaving the coroutine without __aexit__.
RaiseInside_NoExit(r, e) ==
    /\ pc' = [pc EXCEPT ![r] = "done"]
    /\ exc' = [exc EXCEPT ![r] = e]

\* The exception is raised inside the `async with` block: the block is left
\* through __aexit__.
RaiseInside(r, e) ==
    /\ pc' = [pc EXCEPT ![r] = "exit"]
    /\ exc' = [exc EXCEPT ![r] = e]

\* ReturnInside with the return leaving the coroutine without __aexit__.
ReturnInside_NoExit(r) ==
    /\ pc' = [pc EXCEPT ![r] = "done"]
    /\ exc' = exc

\* `return` (or falling off the end) inside the `async with` block.
ReturnInside(r) ==
    /\ pc' = [pc EXCEPT ![r] = "exit"]
    /\ exc' = exc

Log(level, text) == Ev(level, 0, text)

\* ------------------------------------------------------------------ actions
\* ResolveIdentity with the hotkey looked up only when it is first used,
\* after the session is open.
ResolveIdentity_Lazy(r) ==
    /\ pc[r] = "start"
    /\ pc' = [pc EXCEPT ![r] = "open"]
    /\ UNCHANGED <<late, wallet, worker, kind, fut, waited, msg, keys, issued, unrec, events,
                   exc, result>>

\* my_key = settings.get_bittensor_wallet().get_hotkey()
ResolveIdentity(r) ==
    /\ pc[r] = "start"
    /\ IF wallet
       THEN /\ pc' = [pc EXCEPT ![r] = "open"]
            /\ UNCHANGED <<exc, result>>
       ELSE RaiseOutside(r, "IdentityUnavailable")
    /\ UNCHANGED <<late, wallet, worker, kind, fut, waited, msg, keys, issued, unrec, events>>

\* MinerClient(...) and `async with miner_client:` (__aenter__).
OpenSession(r) ==
    /\ pc[r] = "open"
    /\ \E ok \in BOOLEAN :
        IF ok
        THEN /\ pc' = [pc EXCEPT ![r] = "gen"]
             /\ events' = [events EXCEPT ![r] = Append(@, Ev("open", 0, Route(kind[r])))]
             /\ UNCHANGED <<exc, result>>
        ELSE /\ RaiseOutside(r, "ConnectionError")
             /\ UNCHANGED events
    /\ UNCHANGED <<late, wallet, worker, kind, fut, waited, msg, keys, issued, unrec>>

\* GenerateKey with the key pair kept on the service object and handed to
\* every call.
GenerateKey_SharedKey(r) ==
    /\ pc[r] = "gen"
    /\ \E ok \in BOOLEAN :
        IF ok
        THEN /\ issued' = 1
             /\ keys' = [keys EXCEPT ![r] = 1]
             /\ events' = [events EXCEPT ![r] = Append(@, Ev("gen", 1, "pair"))]
             /\ pc' = [pc EXCEPT ![r] = "submit"]
             /\ UNCHANGED exc
        ELSE /\ RaiseInside(r, "CredentialGenerationError")
             /\ UNCHANGED <<issued, keys, events>>
    /\ UNCHANGED <<late, wallet, worker, kind, fut, waited, msg, result, unrec>>

\* GenerateKey with the key generated before the session is entered: its
\* error leaves the coroutine with the session never closed by the block.
GenerateKey_OutsideBlock(r) ==
    /\ pc[r] = "gen"
    /\ \E ok \in BOOLEAN :
        IF ok
        THEN /\ issued' = issued + 1
             /\ keys' = [keys EXCEPT ![r] = issued + 1]
             /\ events' = [events EXCEPT ![r] = Append(@, Ev("gen", issued + 1, "pair"))]
             /\ pc' = [pc EXCEPT ![r] = "submit"]
             /\ UNCHANGED <<exc, result>>
        ELSE /\ RaiseOutside(r, "CredentialGenerationError")
             /\ UNCHANGED <<issued, keys, events>>
    /\ UNCHANGED <<late, wallet, worker, kind, fut, waited, msg, unrec>>

\* private_key, public_key = self.ssh_service.generate_ssh_key(...)
GenerateKey(r) ==
    /\ pc[r] = "gen"
    /\ \E ok \in BOOLEAN :
        IF ok
        THEN /\ issued' = issued + 1
             /\ keys' = [keys EXCEPT ![r] = issued + 1]
             /\ events' = [events EXCEPT ![r] = Append(@, Ev("gen", issued + 1, "pair"))]
             /\ pc' = [pc EXCEPT ![r] = "submit"]
             /\ UNCHANGED exc
        ELSE /\ RaiseInside(r, "CredentialGenerationError")
             /\ UNCHANGED <<issued, keys, events>>
    /\ UNCHANGED <<late, wallet, worker, kind, fut, waited, msg, result, unrec>>

\* SendSubmit with a failed send tried again.
SendSubmit_Retry(r) ==
    /\ pc[r] = "submit"
    /\ \E ok \in BOOLEAN :
        IF ok
        THEN /\ events' = [events EXCEPT ![r] =
                    @ \o <<Ev("send_submit", keys[r], "sent"),
                           Log("log_info", "Sent SSH key to miner")>>]
             /\ pc' = [pc EXCEPT ![r] = "await"]
        ELSE /\ events' = [events EXCEPT ![r] =
                    Append(@, Ev("send_submit", keys[r], "TransportError"))]
             /\ pc' = pc
    /\ UNCHANGED <<late, wallet, worker, kind, fut, waited, msg, keys, issued, result, unrec,
                   exc>>

\* await miner_client.send_model(SSHPubKeySubmitRequest(public_key=public_key))
SendSubmit(r) ==
    /\ pc[r] = "submit"
    /\ \E ok \in BOOLEAN :
        IF ok
        THEN /\ events' = [events EXCEPT ![r] =
                    @ \o <<Ev("send_submit", keys[r], "sent"),
                           Log("log_info", "Sent SSH key to miner")>>]
             /\ pc' = [pc EXCEPT ![r] = "await"]
             /\ UNCHANGED exc
        ELSE /\ events' = [events EXCEPT ![r] =
                    Append(@, Ev("send_submit", keys[r], "TransportError"))]
             /\ RaiseInside(r, "TransportError")
    /\ UNCHANGED <<late, wallet, worker, kind, fut, waited, msg, keys, issued, result, unrec>>

\* MinerClient's receive loop takes one inbound message m: the first message
\* of one of the three classes resolves the future of the session, anything
\* else leaves it alone.
HandleMessage(f, m) == IF f = "pending" /\ m \in Classified THEN m ELSE f

\* The miner sends m while the run is inside asyncio.wait_for, or too late:
\* after wait_for gave up and before the session is closed.
MinerSends(r, m) ==
    /\ \/ pc[r] = "await" /\ fut[r] = "pending"
       \/ /\ pc[r] \in {"branch", "exit"}
          /\ fut[r] # "pending"
          /\ TimedOut(r)
          /\ late[r] = "none"
          /\ m \in Classified
    /\ fut' = [fut EXCEPT ![r] = HandleMessage(@, m)]
    /\ unrec' = [unrec EXCEPT ![r] = @ \/ m \notin Classified]
    /\ late' = [late EXCEPT ![r] = IF pc[r] = "await" THEN @ ELSE m]
    /\ <<fut', unrec', late'>> # <<fut, unrec, late>>
    /\ UNCHANGED <<wallet, worker, kind, pc, waited, msg, keys, issued, exc, result, events>>

\* Time passes inside asyncio.wait_for(future, JOB_LENGTH).
Tick(r) ==
    /\ pc[r] = "await"
    /\ fut[r] = "pending"
    /\ waited[r] < JOB_LENGTH
    /\ waited' = [waited EXCEPT ![r] = Min(@ + TickLen, JOB_LENGTH)]
    /\ UNCHANGED <<late, wallet, worker, kind, pc, fut, msg, keys, issued, exc, result, unrec, events>>

\* asyncio.wait_for returns the result of the future.
WaitReturns(r) ==
    /\ pc[r] = "await"
    /\ fut[r] \in Classified
    /\ msg' = [msg EXCEPT ![r] = fut[r]]
    /\ waited' = [waited EXCEPT ![r] = 0]
    /\ events' = [events EXCEPT ![r] = Append(@, Ev("wait_for", 0, fut[r]))]
    /\ pc' = [pc EXCEPT ![r] = "branch"]
    /\ UNCHANGED <<late, wallet, worker, kind, fut, keys, issued, exc, result, unrec>>

\* WaitTimesOut with the future awaited without a timeout: the wait is
\* never cut off.
WaitTimesOut_NoDeadline(r) ==
    /\ pc[r] = "await"
    /\ fut[r] = "pending"
    /\ FALSE
    /\ UNCHANGED vars

\* WaitTimesOut with the wait given up but the future left alone (the future
\* shielded from wait_for, or waited for with asyncio.wait): a message that
\* comes later still resolves it.
WaitTimesOut_FutureKept(r) ==
    /\ pc[r] = "await"
    /\ fut[r] = "pending"
    /\ waited[r] >= JOB_LENGTH
    /\ msg' = [msg EXCEPT ![r] = None]
    /\ waited' = [waited EXCEPT ![r] = 0]
    /\ events' = [events EXCEPT ![r] = Append(@, Ev("wait_for", 0, "TimeoutError"))]
    /\ pc' = [pc EXCEPT ![r] = "branch"]
    /\ UNCHANGED <<late, wallet, worker, kind, fut, keys, issued, exc, result, unrec>>

\* WaitTimesOut with the TimeoutError of wait_for not caught by the except
\* clause: it leaves the coroutine as it is.
WaitTimesOut_NotCaught(r) ==
    /\ pc[r] = "await"
    /\ fut[r] = "pending"
    /\ waited[r] >= JOB_LENGTH
    /\ fut' = [fut EXCEPT ![r] = "cancelled"]
    /\ events' = [events EXCEPT ![r] = Append(@, Ev("wait_for", 0, "TimeoutError"))]
    /\ pc' = [pc EXCEPT ![r] = "exit"]
    /\ exc' = [exc EXCEPT ![r] = "TimeoutError"]
    /\ waited' = [waited EXCEPT ![r] = 0]
    /\ UNCHANGED <<late, wallet, worker, kind, msg, keys, issued, result, unrec>>

\* JOB_LENGTH elapsed: wait_for cancels the future and raises TimeoutError,
\* which `except TimeoutError: msg = None` turns into msg = None.  The clause
\* names the builtin TimeoutError; asyncio.wait_for raises that class on
\* Python 3.11 and later, which is the interpreter modelled here.
WaitTimesOut(r) ==
    /\ pc[r] = "await"
    /\ fut[r] = "pending"
    /\ waited[r] >= JOB_LENGTH
    /\ fut' = [fut EXCEPT ![r] = "cancelled"]
    /\ msg' = [msg EXCEPT ![r] = None]
    /\ waited' = [waited EXCEPT ![r] = 0]
    /\ events' = [events EXCEPT ![r] = Append(@, Ev("wait_for", 0, "TimeoutError"))]
    /\ pc' = [pc EXCEPT ![r] = "branch"]
    /\ UNCHANGED <<late, wallet, worker, kind, keys, issued, exc, result, unrec>>

\* BranchOf with a missing answer handled like a failure: logged, no error.
BranchOf_NoneReturns(k, m) ==
    CASE m = AcceptSSHKeyRequest                    -> "execute"
      [] m \in {FailedRequest, None}                -> "return"
      [] m = DeclineJobRequest /\ HandlesDecline(k) -> "return"
      [] OTHER                                      -> "ValueError"

\* BranchOf with the accept branch taken for anything that is not a failure.
BranchOf_NoneExecutes(k, m) ==
    CASE m = FailedRequest                          -> "return"
      [] m = DeclineJobRequest /\ HandlesDecline(k) -> "return"
      [] OTHER                                      -> "execute"

\* BranchOf with the decline branch falling into the accept branch.
BranchOf_DeclineExecutes(k, m) ==
    CASE m \in {AcceptSSHKeyRequest, DeclineJobRequest} -> "execute"
      [] m = FailedRequest                              -> "return"
      [] OTHER                                          -> "ValueError"

\* The if / elif / else on the type of msg.
BranchOf(k, m) ==
    CASE m = AcceptSSHKeyRequest                    -> "execute"
      [] m = FailedRequest                          -> "return"
      [] m = DeclineJobRequest /\ HandlesDecline(k) -> "return"
      [] OTHER                                      -> "ValueError"

Branch(r) ==
    /\ pc[r] = "branch"
    /\ LET b == BranchOf(kind[r], msg[r]) IN
        CASE b = "execute" ->
                /\ events' = [events EXCEPT ![r] =
                        @ \o <<Log("log_info", "accepted SSH key"),
                               Ev("exec_start", keys[r], Executor(kind[r]))>>]
                /\ worker' = [worker EXCEPT ![r] = ExecWorker(kind[r])]
                /\ pc' = [pc EXCEPT ![r] = "exec"]
                /\ UNCHANGED exc
          [] b = "return" ->
                /\ events' = [events EXCEPT ![r] =
                        Append(@, Log("log_info",
                            IF msg[r] = FailedRequest THEN "failed job" ELSE "job declined"))]
                /\ ReturnInside(r)
                /\ UNCHANGED worker
          [] OTHER ->
                /\ RaiseInside(r, "ValueError")
                /\ UNCHANGED <<events, worker>>
    /\ UNCHANGED <<late, wallet, kind, fut, waited, msg, keys, issued, result, unrec>>

\* The task / docker operation finishes: it returns or it raises.
ExecFinishes(r) ==
    /\ pc[r] = "exec"
    /\ worker' = [worker EXCEPT ![r] = "none"]
    /\ \E ok \in BOOLEAN :
        IF ok
        THEN /\ events' = [events EXCEPT ![r] =
                    IF kind[r] = "request_job"
                    THEN @ \o <<Ev("exec_done", keys[r], "returned"),
                                Log("log_info", "machine specs")>>
                    ELSE Append(@, Ev("exec_done", keys[r], "returned"))]
             /\ pc' = [pc EXCEPT ![r] = "revoke"]
             /\ UNCHANGED exc
        ELSE IF CatchesExecError(kind[r])
             THEN /\ events' = [events EXCEPT ![r] =
                        @ \o <<Ev("exec_done", keys[r], "raised"),
                               Log("log_error", ErrorLogText(kind[r]))>>]
                  /\ pc' = [pc EXCEPT ![r] = "revoke"]
                  /\ UNCHANGED exc
             ELSE /\ events' = [events EXCEPT ![r] =
                        Append(@, Ev("exec_done", keys[r], "raised"))]
                  /\ RaiseInside(r, "ActionExecutionError")
    /\ UNCHANGED <<late, wallet, kind, fut, waited, msg, keys, issued, result, unrec>>

\* SendRemove with a key generated anew for the request instead of the
\* public_key of the run.
SendRemove_OtherKey(r) ==
    /\ pc[r] = "revoke"
    /\ \E ok \in BOOLEAN :
        /\ events' = [events EXCEPT ![r] =
                Append(@, Ev("send_remove", keys[r] + 1, IF ok THEN "sent" ELSE "TransportError"))]
        /\ IF ok THEN ReturnInside(r) ELSE RaiseInside(r, "TransportError")
    /\ UNCHANGED <<late, wallet, worker, kind, fut, waited, msg, keys, issued, result, unrec>>

\* SendRemove with the send wrapped in a try/except that only logs.
SendRemove_ErrorLogged(r) ==
    /\ pc[r] = "revoke"
    /\ \E ok \in BOOLEAN :
        /\ events' = [events EXCEPT ![r] =
                Append(@, Ev("send_remove", keys[r], IF ok THEN "sent" ELSE "TransportError"))]
        /\ ReturnInside(r)
    /\ UNCHANGED <<late, wallet, worker, kind, fut, waited, msg, keys, issued, result, unrec>>

\* await miner_client.send_model(SSHPubKeyRemoveRequest(public_key=public_key))
SendRemove(r) ==
    /\ pc[r] = "revoke"
    /\ \E ok \in BOOLEAN :
        /\ events' = [events EXCEPT ![r] =
                Append(@, Ev("send_remove", keys[r], IF ok THEN "sent" ELSE "TransportError"))]
        /\ IF ok THEN ReturnInside(r) ELSE RaiseInside(r, "TransportError")
    /\ UNCHANGED <<late, wallet, worker, kind, fut, waited, msg, keys, issued, result, unrec>>

\* CloseSession with the coroutine going on after the session was closed.
CloseSession_GoesOn(r) ==
    /\ pc[r] = "exit"
    /\ events' = [events EXCEPT ![r] = Append(@, Ev("close", 0, exc[r]))]
    /\ result' = [result EXCEPT ![r] = IF exc[r] = "none" THEN "returned" ELSE "raised"]
    /\ pc' = [pc EXCEPT ![r] = "revoke"]
    /\ UNCHANGED <<late, wallet, worker, kind, fut, waited, msg, keys, issued, exc, unrec>>

\* Leaving `async with miner_client:` (__aexit__): the session is closed and
\* the return or the exception reaches the caller.
CloseSession(r) ==
    /\ pc[r] = "exit"
    /\ events' = [events EXCEPT ![r] = Append(@, Ev("close", 0, exc[r]))]
    /\ result' = [result EXCEPT ![r] = IF exc[r] = "none" THEN "returned" ELSE "raised"]
    /\ pc' = [pc EXCEPT ![r] = "done"]
    /\ UNCHANGED <<late, wallet, worker, kind, fut, waited, msg, keys, issued, exc, unrec>>

\* One step of run r.
Step(r) ==
    \/ ResolveIdentity(r)
    \/ OpenSession(r)
    \/ GenerateKey(r)
    \/ SendSubmit(r)
    \/ \E m \in MinerMessages : MinerSends(r, m)
    \/ Tick(r)
    \/ WaitReturns(r)
    \/ WaitTimesOut(r)
    \/ Branch(r)
    \/ ExecFinishes(r)
    \/ SendRemove(r)
    \/ CloseSession(r)

Next == \E r \in Runs : Step(r)

Spec == Init /\ [][Next]_vars

\* Calls that overlap on the event loop: one call more than in Spec, each
\* of any kind, started from the same process-wide settings.
PairRuns == 1..(NumRuns + 1)

InitPair ==
    /\ wallet \in BOOLEAN
    /\ kind \in [PairRuns -> Kinds]
    /\ pc = [r \in PairRuns |-> "start"]
    /\ fut = [r \in PairRuns |-> "pending"]
    /\ waited = [r \in PairRuns |-> 0]
    /\ msg = [r \in PairRuns |-> "unset"]
    /\ keys = [r \in PairRuns |-> 0]
    /\ issued = 0
    /\ exc = [r \in PairRuns |-> "none"]
    /\ result = [r \in PairRuns |-> "running"]
    /\ unrec = [r \in PairRuns |-> FALSE]
    /\ worker = [r \in PairRuns |-> "none"]
    /\ late = [r \in PairRuns |-> "none"]
    /\ events = [r \in PairRuns |-> <<>>]

NextPair == \E r \in PairRuns : Step(r)

SpecPair == InitPair /\ [][NextPair]_vars

\* The steps of run r that the validator itself takes: the event loop
\* resumes a coroutine that can go on, the timer of wait_for runs, a
\* send_model call completes and an operation that was invoked returns or
\* raises.  The miner is under no such obligation: it may never answer.
Progress(r) ==
    \/ ResolveIdentity(r)
    \/ OpenSession(r)
    \/ GenerateKey(r)
    \/ SendSubmit(r)
    \/ Tick(r)
    \/ WaitReturns(r)
    \/ WaitTimesOut(r)
    \/ Branch(r)
    \/ ExecFinishes(r)
    \/ SendRemove(r)
    \/ CloseSession(r)

FairSpec == Init /\ [][Next]_vars /\ \A r \in Runs : WF_vars(Progress(r))

\* Everything run r holds: its locals, its session and its trace.
Local(r) == <<kind[r], pc[r], fut[r], waited[r], msg[r], keys[r], exc[r], result[r],
              unrec[r], worker[r], late[r], events[r]>>

\* ------------------------------------------------------ reading a finished run
Done(r) == pc[r] = "done"

Accepted(r) == msg[r] = AcceptSSHKeyRequest

\* The operation of the run raised.
ExecRaised(r) == \E i \in DOMAIN events[r] :
    events[r][i].type = "exec_done" /\ events[r][i].arg = "raised"

\* A send_model call of the given type failed.
SendFailed(r, t) == \E i \in DOMAIN events[r] :
    events[r][i].type = t /\ events[r][i].arg = "TransportError"

ReturnedNormally(r) == Done(r) /\ result[r] = "returned" /\ exc[r] = "none"

Raised(r, e) == Done(r) /\ result[r] = "raised" /\ exc[r] = e

\* ------------------------------------------------------------------ claims
\* C1: for each of the five kinds a run invokes its operation exactly once
\* when the message waited for is an AcceptSSHKeyRequest and never otherwise
\* (declined, failed, timeout, unrecognized message, or a run that stops
\* before the wait).
C1_ExecOnceIffAccepted ==
    \A r \in Runs :
        /\ Count(r, "exec_start") <= 1
        /\ Has(r, "exec_start") => Accepted(r)
        /\ Done(r) => Count(r, "exec_start") = (IF Accepted(r) THEN 1 ELSE 0)

C1_Witness ==
    \E r \in Runs :
        /\ Done(r)
        /\ Accepted(r)
        /\ kind[r] = "request_job"
        /\ Count(r, "exec_start") = 1

\* C2: a run of a container coroutine calls send_model with
\* SSHPubKeyRemoveRequest if and only if the message waited for was an
\* AcceptSSHKeyRequest, whether the docker operation returned or raised.
C2_RevokeIffAccepted ==
    \A r \in Runs :
        kind[r] \in ContainerKinds =>
            /\ Has(r, "send_remove") => Accepted(r)
            /\ Done(r) => (Has(r, "send_remove") <=> Accepted(r))

C2_Witness ==
    \E r \in Runs :
        /\ Done(r)
        /\ kind[r] = "delete_container"
        /\ Accepted(r)
        /\ ExecRaised(r)
        /\ Has(r, "send_remove")

\* C3 (as stated): once the miner accepted the key, a raising operation is
\* handled asymmetrically: request_job_to_miner lets the error out and sends
\* no SSHPubKeyRemoveRequest; each container coroutine logs the error, still
\* sends SSHPubKeyRemoveRequest and returns normally.
C3_AsymmetricAsStated ==
    \A r \in Runs :
        (Done(r) /\ Accepted(r) /\ ExecRaised(r)) =>
            IF kind[r] = "request_job"
            THEN /\ Raised(r, "ActionExecutionError")
                 /\ ~Has(r, "send_remove")
            ELSE /\ Has(r, "log_error")
                 /\ Has(r, "send_remove")
                 /\ ReturnedNormally(r)

\* C3 (amended): as above, but a container run returns normally only when
\* the send of SSHPubKeyRemoveRequest itself succeeds; when that send fails
\* the run raises the transport error of the send, never the error of the
\* operation.
C3_Asymmetric ==
    \A r \in Runs :
        (Done(r) /\ Accepted(r) /\ ExecRaised(r)) =>
            IF kind[r] = "request_job"
            THEN /\ Raised(r, "ActionExecutionError")
                 /\ ~Has(r, "send_remove")
            ELSE /\ Has(r, "log_error")
                 /\ Count(r, "send_remove") = 1
                 /\ Pos(r, "exec_done") < Pos(r, "send_remove")
                 /\ IF SendFailed(r, "send_remove")
                    THEN Raised(r, "TransportError")
                    ELSE ReturnedNormally(r)

C3_Witness ==
    \E r \in Runs :
        /\ Done(r)
        /\ kind[r] = "stop_container"
        /\ Accepted(r)
        /\ ExecRaised(r)
        /\ Has(r, "log_error")
        /\ Has(r, "send_remove")
        /\ ReturnedNormally(r)

\* C4 (as stated): the session is closed exactly once per run on every exit
\* path, the identity-resolution error included.
C4_ClosedOnceAsStated ==
    \A r \in Runs : Done(r) => Count(r, "close") = 1

\* C4 (amended): the session is closed exactly once on every exit path of a
\* run that entered `async with miner_client` (normal return, declined,
\* failed, timeout, failed send, failed key generation, raising operation),
\* and the close is the last thing the run does; a run that stops on the
\* identity-resolution error, or whose session could not be opened, has no
\* session and closes none.
C4_ClosedOnceIfOpened ==
    \A r \in Runs :
        /\ Count(r, "close") <= 1
        /\ Count(r, "open") <= 1
        /\ Has(r, "close") => Has(r, "open")
        /\ Done(r) =>
            /\ Count(r, "close") = Count(r, "open")
            /\ Has(r, "close") => Pos(r, "close") = Len(events[r])
            /\ exc[r] \in {"IdentityUnavailable", "ConnectionError"} <=> ~Has(r, "open")

C4_Witness ==
    \E r \in Runs :
        /\ Done(r)
        /\ Raised(r, "ValueError")
        /\ TimedOut(r)
        /\ Count(r, "open") = 1
        /\ Count(r, "close") = 1

\* C5: for every kind, when the message waited for is a DeclineJobRequest or
\* a FailedRequest the run logs and returns normally, invokes no operation
\* and sends no SSHPubKeyRemoveRequest.
C5_DeclinedOrFailedReturns ==
    \A r \in Runs :
        (Done(r) /\ msg[r] \in {DeclineJobRequest, FailedRequest}) =>
            /\ ReturnedNormally(r)
            /\ Has(r, "log_info")
            /\ ~Has(r, "exec_start")
            /\ ~Has(r, "send_remove")

\* C6: when the future is not resolved within JOB_LENGTH the run ends with
\* the ValueError of the else branch (the error an unrecognized msg gets, no
\* separate timeout error), invokes no operation, sends no
\* SSHPubKeyRemoveRequest and closes the session.
C6_TimeoutIsValueError ==
    \A r \in Runs :
        /\ TimedOut(r) =>
            /\ msg[r] = None
            /\ fut[r] = "cancelled"
            /\ ~Has(r, "exec_start")
            /\ ~Has(r, "send_remove")
        /\ (TimedOut(r) /\ Done(r)) =>
            /\ Raised(r, "ValueError")
            /\ Raised(r, BranchOf(kind[r], "Other"))
            /\ Count(r, "close") = 1
        /\ (pc[r] = "await" /\ waited[r] < JOB_LENGTH) => ~ENABLED WaitTimesOut(r)
        /\ (pc[r] = "await" /\ waited[r] = JOB_LENGTH /\ fut[r] = "pending") =>
                ENABLED WaitTimesOut(r)
        /\ waited[r] <= JOB_LENGTH

C6_Witness ==
    \E r \in Runs :
        /\ Done(r)
        /\ TimedOut(r)
        /\ kind[r] = "delete_container"
        /\ ~unrec[r]
        /\ Raised(r, "ValueError")
        /\ Has(r, "close")

\* C7: in every run the steps come in one order: the session is opened
\* before the key pair is generated and submitted; SSHPubKeySubmitRequest is
\* sent before the future is waited for; the operation starts only after an
\* AcceptSSHKeyRequest came out of the wait; SSHPubKeyRemoveRequest is sent
\* only after the operation finished and before the session closes.
C7_ProtocolOrder ==
    \A r \in Runs :
        /\ Has(r, "gen") => (0 < Pos(r, "open") /\ Pos(r, "open") < Pos(r, "gen"))
        /\ Has(r, "send_submit") =>
                (0 < Pos(r, "gen") /\ Pos(r, "gen") < Pos(r, "send_submit"))
        /\ Has(r, "wait_for") =>
                /\ 0 < Pos(r, "send_submit")
                /\ Pos(r, "send_submit") < Pos(r, "wait_for")
                /\ events[r][Pos(r, "send_submit")].arg = "sent"
        /\ Has(r, "exec_start") =>
                /\ 0 < Pos(r, "wait_for")
                /\ Pos(r, "wait_for") < Pos(r, "exec_start")
                /\ events[r][Pos(r, "wait_for")].arg = AcceptSSHKeyRequest
        /\ Has(r, "exec_done") => Pos(r, "exec_start") < Pos(r, "exec_done")
        /\ Has(r, "send_remove") =>
                (0 < Pos(r, "exec_done") /\ Pos(r, "exec_done") < Pos(r, "send_remove"))
        /\ Has(r, "close") =>
                \A i \in DOMAIN events[r] :
                    events[r][i].type # "close" => i < Pos(r, "close")

C7_Witness ==
    \E r \in Runs :
        /\ Done(r)
        /\ kind[r] = "start_container"
        /\ Pos(r, "open") = 1
        /\ Pos(r, "open") < Pos(r, "gen")
        /\ Pos(r, "gen") < Pos(r, "send_submit")
        /\ Pos(r, "send_submit") < Pos(r, "wait_for")
        /\ Pos(r, "wait_for") < Pos(r, "exec_start")
        /\ Pos(r, "exec_start") < Pos(r, "exec_done")
        /\ Pos(r, "exec_done") < Pos(r, "send_remove")
        /\ Pos(r, "send_remove") < Pos(r, "close")

\* C8: for every kind, request_job included, the operation runs on a worker
\* apart from the event loop the coroutine runs on.
C8_SeparateWorker ==
    \A r \in Runs : pc[r] = "exec" => worker[r] = "thread"

\* C9: when the send of SSHPubKeySubmitRequest fails the run ends with that
\* transport error: the future is never waited for, no operation is
\* invoked, no SSHPubKeyRemoveRequest is sent, and the session is closed.
C9_SubmitFailureAborts ==
    \A r \in Runs :
        SendFailed(r, "send_submit") =>
            /\ pc[r] \in {"exit", "done"}
            /\ exc[r] = "TransportError"
            /\ msg[r] = "unset"
            /\ ~Has(r, "wait_for")
            /\ ~Has(r, "exec_start")
            /\ ~Has(r, "send_remove")
            /\ Done(r) => (Raised(r, "TransportError") /\ Count(r, "close") = 1)

C9_Witness ==
    \E r \in Runs :
        /\ Done(r)
        /\ SendFailed(r, "send_submit")
        /\ Raised(r, "TransportError")
        /\ Count(r, "close") = 1

\* C10: when the hotkey cannot be resolved the run fails before any session
\* is opened: no session, no key pair, no message.
C10_IdentityFailsFast ==
    \A r \in Runs :
        /\ ~wallet =>
            /\ events[r] = <<>>
            /\ keys[r] = 0
            /\ pc[r] \in {"start", "done"}
            /\ Done(r) => Raised(r, "IdentityUnavailable")
        /\ exc[r] = "IdentityUnavailable" => (~wallet /\ events[r] = <<>> /\ issued = 0)

C10_Witness ==
    \E r \in Runs :
        /\ ~wallet
        /\ Raised(r, "IdentityUnavailable")
        /\ events[r] = <<>>

\* C11: when generate_ssh_key raises, the run ends with that error, the
\* session (already open) is closed, and no SSHPubKeySubmitRequest was ever
\* sent on it.
C11_KeyGenerationFailure ==
    \A r \in Runs :
        exc[r] = "CredentialGenerationError" =>
            /\ pc[r] \in {"exit", "done"}
            /\ Has(r, "open")
            /\ keys[r] = 0
            /\ ~Has(r, "gen")
            /\ ~Has(r, "send_submit")
            /\ ~Has(r, "send_remove")
            /\ ~Has(r, "exec_start")
            /\ Done(r) => (Raised(r, "CredentialGenerationError") /\ Count(r, "close") = 1)

C11_Witness ==
    \E r \in Runs :
        /\ Raised(r, "CredentialGenerationError")
        /\ Count(r, "open") = 1
        /\ Count(r, "close") = 1
        /\ ~Has(r, "send_submit")

\* The exception a finished run ends with, worked out from what that run
\* itself met: the settings, its own session, its own key generation, its own
\* sends, its own msg and its own operation.
OwnOutcome(r) ==
    IF ~wallet THEN "IdentityUnavailable"
    ELSE IF ~Has(r, "open") THEN "ConnectionError"
    ELSE IF ~Has(r, "gen") THEN "CredentialGenerationError"
    ELSE IF SendFailed(r, "send_submit") THEN "TransportError"
    ELSE IF BranchOf(kind[r], msg[r]) = "ValueError" THEN "ValueError"
    ELSE IF BranchOf(kind[r], msg[r]) = "return" THEN "none"
    ELSE IF ExecRaised(r) /\ ~CatchesExecError(kind[r]) THEN "ActionExecutionError"
    ELSE IF SendFailed(r, "send_remove") THEN "TransportError"
    ELSE "none"

\* C12: overlapping runs are independent: each run has its own session and
\* its own key pair, a step of one run changes nothing another run holds, and
\* what a run ends with (operation invoked or not, remove sent or not, error
\* or normal return) follows from its own handshake, its own operation and
\* its own sends.
C12_Independent ==
    /\ [](\A r \in PairRuns : \A q \in PairRuns \ {r} :
            /\ (keys[r] # 0 /\ keys[q] # 0) => keys[r] # keys[q]
            /\ Done(r) =>
                /\ exc[r] = OwnOutcome(r)
                /\ result[r] = (IF OwnOutcome(r) = "none" THEN "returned" ELSE "raised")
                /\ Has(r, "exec_start") <=> (Has(r, "wait_for") /\ Accepted(r))
                /\ Has(r, "send_remove") <=>
                        (Has(r, "exec_done") /\ ~(ExecRaised(r) /\ ~CatchesExecError(kind[r]))))
    /\ [][\A r \in PairRuns : \A q \in PairRuns \ {r} :
            Local(r)' # Local(r) => Local(q)' = Local(q)]_vars

C12_Witness ==
    \E r \in PairRuns : \E q \in PairRuns \ {r} :
        /\ kind[r] = "request_job"
        /\ kind[q] = "stop_container"
        /\ pc[r] = "exec"
        /\ keys[r] = 2
        /\ keys[q] = 1
        /\ Raised(q, "ValueError")
        /\ TimedOut(q)

\* C13: the closed session is final: once a run has closed its session it
\* sends nothing, invokes nothing and changes nothing any more; a session is
\* closed at most once, and every run that opened a session comes to close
\* it (a trace only grows, so "from some point on every opened session is
\* closed" says exactly that).
C13_ClosedIsTerminal ==
    /\ [][\A r \in Runs : Has(r, "close") => Local(r)' = Local(r)]_vars
    /\ [](\A r \in Runs :
            /\ Count(r, "close") <= 1
            /\ Has(r, "close") => (Done(r) /\ Pos(r, "close") = Len(events[r])))
    /\ <>[](\A r \in Runs : Has(r, "open") => Has(r, "close"))

C13_Witness ==
    \E r \in Runs :
        /\ Done(r)
        /\ msg[r] = FailedRequest
        /\ Count(r, "open") = 1
        /\ Count(r, "close") = 1
        /\ ~ENABLED Step(r)

\* C14: the five coroutines differ only in the operation they invoke: two
\* finished runs that got the same message out of the wait (accept, decline,
\* failure, or none after a timeout or an unrecognized message), whose sends
\* went alike and whose operation ended alike, sent the same messages, ended
\* the same way and closed their session alike, whichever kinds they are.
C14_SameSessionBehaviour ==
    \A r \in PairRuns : \A q \in PairRuns \ {r} :
        ( /\ Done(r) /\ Done(q)
          /\ Has(r, "wait_for") /\ Has(q, "wait_for")
          /\ msg[r] = msg[q]
          /\ ExecRaised(r) = ExecRaised(q)
          /\ SendFailed(r, "send_remove") = SendFailed(q, "send_remove") )
        => /\ result[r] = result[q]
           /\ exc[r] = exc[q]
           /\ Has(r, "send_remove") = Has(q, "send_remove")
           /\ Count(r, "close") = Count(q, "close")

\* C15: the outcome of the wait is fixed once, by whichever comes first of
\* the future being resolved and JOB_LENGTH running out: a message resolved
\* before the deadline is what wait_for returns and is never turned into a
\* timeout, and an AcceptSSHKeyRequest (or any other message) that comes only
\* after the deadline changes neither msg nor the future, starts no operation
\* and causes no SSHPubKeyRemoveRequest.
C15_OutcomeFixedOnce ==
    /\ [](\A r \in Runs :
            /\ Count(r, "wait_for") <= 1
            /\ (pc[r] = "await" /\ fut[r] \in Classified) =>
                    (~ENABLED WaitTimesOut(r) /\ ENABLED WaitReturns(r))
            /\ Has(r, "wait_for") =>
                    IF TimedOut(r)
                    THEN fut[r] = "cancelled" /\ msg[r] = None
                    ELSE fut[r] \in Classified /\ msg[r] = fut[r]
            /\ late[r] # "none" =>
                    /\ TimedOut(r)
                    /\ msg[r] = None
                    /\ ~Has(r, "exec_start")
                    /\ ~Has(r, "send_remove")
                    /\ Done(r) => Raised(r, "ValueError"))
    /\ [][\A r \in Runs :
            /\ msg[r] # "unset" => msg'[r] = msg[r]
            /\ fut[r] # "pending" => fut'[r] = fut[r]]_vars

C15_Witness ==
    \E r \in Runs :
        /\ Done(r)
        /\ TimedOut(r)
        /\ late[r] = AcceptSSHKeyRequest
        /\ Raised(r, "ValueError")
        /\ ~Has(r, "exec_start")

\* The kinds of step of a run, in order, without their arguments.
TypeSeq(r) == [i \in DOMAIN events[r] |-> events[r][i].type]

\* C16: a run whose wait times out with nothing received and a run whose
\* miner sent only a message the client does not classify end alike: the
\* wait lasts until JOB_LENGTH has run out, the same ValueError reaches the
\* caller, no operation is invoked, no SSHPubKeyRemoveRequest is sent, the
\* session is closed, and the two runs took the same steps.
C16_TimeoutLikeUnrecognized ==
    \A r \in Runs :
        /\ (unrec[r] /\ pc[r] = "await" /\ fut[r] = "pending" /\ waited[r] < JOB_LENGTH) =>
                (~ENABLED WaitTimesOut(r) /\ ~ENABLED WaitReturns(r))
        /\ (Done(r) /\ Has(r, "wait_for") /\ fut[r] \notin Classified) =>
                /\ TimedOut(r)
                /\ Raised(r, "ValueError")
                /\ TypeSeq(r) =
                    <<"open", "gen", "send_submit", "log_info", "wait_for", "close">>
                /\ events[r][5].arg = "TimeoutError"
                /\ events[r][6].arg = "ValueError"

C16_Witness ==
    \E r \in Runs :
        /\ Done(r)
        /\ unrec[r]
        /\ late[r] = "none"
        /\ TimedOut(r)
        /\ Raised(r, "ValueError")
        /\ Count(r, "close") = 1

\* C17: every run comes to an end with its session closed, given only that
\* the validator's own steps go on (sends complete, an invoked operation
\* returns or raises): a miner that never answers cannot hold a run, since
\* the wait is cut off at JOB_LENGTH.
C17_EveryRunTerminates ==
    /\ [](\A r \in Runs : waited[r] <= JOB_LENGTH)
    /\ <>[](\A r \in Runs : Done(r) /\ Count(r, "close") = Count(r, "open"))

C17_Witness ==
    \E r \in Runs :
        /\ Done(r)
        /\ kind[r] = "start_container"
        /\ fut[r] = "cancelled"
        /\ ~unrec[r]
        /\ late[r] = "none"
        /\ Count(r, "close") = 1

\* C18: nothing is tried twice inside a run: on every path a run opens at
\* most one session, generates at most one key pair, sends at most one
\* SSHPubKeySubmitRequest and at most one SSHPubKeyRemoveRequest, waits for
\* the future at most once and invokes its operation at most once.
C18_NoRetry ==
    \A r \in Runs :
        \A t \in {"open", "gen", "send_submit", "wait_for", "exec_start", "exec_done",
                  "send_remove", "close"} :
            Count(r, t) <= 1

C18_Witness ==
    \E r \in Runs :
        /\ ReturnedNormally(r)
        /\ kind[r] = "request_job"
        /\ \A t \in {"open", "gen", "send_submit", "wait_for", "exec_start", "send_remove"} :
                Count(r, t) = 1

\* C19: within a run one key pair is used throughout: the public key of the
\* SSHPubKeyRemoveRequest is the one sent in the SSHPubKeySubmitRequest, the
\* private key given to the operation belongs to that same generated pair,
\* and the operation gets the AcceptSSHKeyRequest that came out of the wait
\* on the run's own future.
C19_OneCredential ==
    \A r \in Runs :
        /\ \A i \in DOMAIN events[r] :
                events[r][i].type \in {"gen", "send_submit", "exec_start", "exec_done",
                                       "send_remove"}
                    => (events[r][i].key = keys[r] /\ keys[r] # 0 /\ keys[r] <= issued)
        /\ Has(r, "send_remove") =>
                events[r][Pos(r, "send_remove")].key = events[r][Pos(r, "send_submit")].key
        /\ Has(r, "exec_start") =>
                /\ events[r][Pos(r, "exec_start")].key = events[r][Pos(r, "gen")].key
                /\ msg[r] = AcceptSSHKeyRequest
                /\ fut[r] = msg[r]
                /\ events[r][Pos(r, "wait_for")].arg = msg[r]

C19_Witness ==
    \E r \in Runs :
        /\ Done(r)
        /\ kind[r] = "create_container"
        /\ keys[r] # 0
        /\ Has(r, "exec_start")
        /\ Has(r, "send_remove")
        /\ events[r][Pos(r, "send_submit")].key = keys[r]
        /\ events[r][Pos(r, "exec_start")].key = keys[r]
        /\ events[r][Pos(r, "send_remove")].key = keys[r]
        /\ events[r][Pos(r, "send_remove")].arg = "sent"

\* C20: when the send of SSHPubKeyRemoveRequest fails after the operation
\* finished (returned, or raised and was logged in a container coroutine),
\* the transport error leaves the run, the operation is not invoked again,
\* the send is not tried again, and the session is closed exactly once.
C20_RemoveFailurePropagates ==
    \A r \in Runs :
        SendFailed(r, "send_remove") =>
            /\ pc[r] \in {"exit", "done"}
            /\ exc[r] = "TransportError"
            /\ Has(r, "exec_done")
            /\ Pos(r, "exec_done") < Pos(r, "send_remove")
            /\ Count(r, "exec_start") = 1
            /\ Count(r, "send_remove") = 1
            /\ Done(r) => (Raised(r, "TransportError") /\ Count(r, "close") = 1)

C20_Witness ==
    \E r \in Runs :
        /\ kind[r] = "start_container"
        /\ ExecRaised(r)
        /\ SendFailed(r, "send_remove")
        /\ Raised(r, "TransportError")
        /\ Count(r, "exec_start") = 1
        /\ Count(r, "close") = 1

====
